---- MODULE Spec2Model ----
(***************************************************************************)
(* Model of src/src/index.ts (HamedStack.BrowserFingerprint): the signal   *)
(* providers, computeHashBuffer, computeSHA256 and the orchestrator        *)
(* getBrowserFingerprint, run against a host environment `env`.            *)
(*                                                                         *)
(* Strings are sequences of one-character strings, so that joins, hex and  *)
(* decimal renderings are computed character by character.                 *)
(* JavaScript numbers that leave the 32-bit range are pairs <<hi, lo>>     *)
(* standing for hi * 2^16 + lo with 0 <= lo < 2^16 (TLC's own integers are *)
(* 32 bits wide; the code's accumulator is a double and is not).           *)
(***************************************************************************)
EXTENDS Integers, Sequences, FiniteSets, TLC

\* ------------------------------------------------------------------ bounds
\* longest byte buffer fed to the computeHashBuffer loop
MaxLen == 6
\* largest navigator.hardwareConcurrency the host reports
MaxCores == 2

\* ------------------------------------------------------- wide integers
Half == 2^16

\* the number n (within TLC's range) as a pair
Wide(n) == <<n \div Half, n % Half>>

WAdd(a, b) == <<a[1] + b[1] + ((a[2] + b[2]) \div Half), (a[2] + b[2]) % Half>>

WSub(a, b) == <<a[1] - b[1] + ((a[2] - b[2]) \div Half), (a[2] - b[2]) % Half>>

WNeg(a) == WSub(<<0, 0>>, a)

WAbs(a) == IF a[1] < 0 THEN WNeg(a) ELSE a

\* ECMAScript ToInt32: a modulo 2^32, read as a signed 32-bit integer
ToInt32(a) ==
  LET h == a[1] % Half
  IN  <<IF h >= Half \div 2 THEN h - Half ELSE h, a[2]>>

\* ECMAScript `a << 5`: ToInt32(a), shifted left by 5 bits, truncated to 32
\* bits and read as signed
Shl5(a) ==
  LET h == a[1] % Half
      l == a[2] * 32
  IN  ToInt32(<<(h * 32 + (l \div Half)) % Half, l % Half>>)

\* --------------------------------------------------------- renderings
HexDigits == <<"0", "1", "2", "3", "4", "5", "6", "7",
               "8", "9", "a", "b", "c", "d", "e", "f">>

RECURSIVE NatToString(_, _)
\* Number.prototype.toString(radix) of a natural number n < 2^31
NatToString(n, radix) ==
  IF n < radix THEN <<HexDigits[n + 1]>>
  ELSE NatToString(n \div radix, radix) \o <<HexDigits[(n % radix) + 1]>>

RECURSIVE PadStart(_, _, _)
\* String.prototype.padStart(len, c)
PadStart(s, len, c) == IF Len(s) >= len THEN s ELSE PadStart(<<c>> \o s, len, c)

\* Number.prototype.toString(16) of a wide integer: a minus sign and the
\* magnitude for a negative number, no leading zeros
WideToHex(a) ==
  LET m == WAbs(a)
      digits == IF m[1] = 0 THEN NatToString(m[2], 16)
                ELSE NatToString(m[1], 16) \o PadStart(NatToString(m[2], 16), 4, "0")
  IN  IF a[1] < 0 THEN <<"-">> \o digits ELSE digits

\* ------------------------------------------------- computeHashBuffer
\* mutant: the subtraction forgotten, 32 * hash + byte
HashStepNoSub(hash, byte) == WAdd(Shl5(hash), Wide(byte))

\* line 49: `hash << 5` alone is truncated to 32 bits; `- hash + byte` is the
\* arithmetic of doubles, exact below 2^53
HashStep(hash, byte) == WAdd(WSub(Shl5(hash), hash), Wide(byte))

RECURSIVE HashFrom(_, _)
HashFrom(hash, bytes) ==
  IF bytes = <<>> THEN hash
  ELSE HashFrom(HashStep(hash, Head(bytes)), Tail(bytes))

computeHashBuffer(buffer) == WideToHex(HashFrom(<<0, 0>>, buffer))

\* ------------------------------------------------------ string helpers
NA == <<"N", "/", "A">>

\* String(promise), what a template literal renders for a Promise object
ObjectPromise == <<"[", "o", "b", "j", "e", "c", "t", " ",
                   "P", "r", "o", "m", "i", "s", "e", "]">>

RECURSIVE JoinStr(_, _)
\* Array.prototype.join(sep) of an array of strings
JoinStr(parts, sep) ==
  IF parts = <<>> THEN <<>>
  ELSE IF Len(parts) = 1 THEN parts[1]
  ELSE parts[1] \o sep \o JoinStr(Tail(parts), sep)

RECURSIVE Distinct(_)
\* [...new Set(list)]: first occurrences, in insertion order
Distinct(list) ==
  IF list = <<>> THEN <<>>
  ELSE LET front == Distinct(SubSeq(list, 1, Len(list) - 1))
           last == list[Len(list)]
       IN  IF \E j \in 1..Len(front) : front[j] = last THEN front
           ELSE Append(front, last)

\* JavaScript `a || b` on strings; null, undefined and "" are all falsy and
\* are all written <<>> in the host environment
OrElse(a, b) == IF a = <<>> THEN b ELSE a

\* the printable ASCII characters, code points 32..126 (the grave accent,
\* code point 96, is spelled out)
Ascii == <<
  " ", "!", "\"", "#", "$", "%", "&", "'", "(", ")", "*", "+",
  ",", "-", ".", "/", "0", "1", "2", "3", "4", "5", "6", "7",
  "8", "9", ":", ";", "<", "=", ">", "?", "@", "A", "B", "C",
  "D", "E", "F", "G", "H", "I", "J", "K", "L", "M", "N", "O",
  "P", "Q", "R", "S", "T", "U", "V", "W", "X", "Y", "Z", "[",
  "\\", "]", "^", "_", "grave", "a", "b", "c", "d", "e", "f", "g",
  "h", "i", "j", "k", "l", "m", "n", "o", "p", "q", "r", "s",
  "t", "u", "v", "w", "x", "y", "z", "{", "|", "}", "~">>

\* TextEncoder.encode on ASCII text: one byte per character (line 55)
Utf8(s) == [j \in 1..Len(s) |-> 31 + CHOOSE n \in 1..Len(Ascii) : Ascii[n] = s[j]]

\* what a provider call does: return a value or throw
Return(v) == [t |-> "return", v |-> v]

Throw == [t |-> "throw", v |-> <<"TypeError">>]

\* ------------------------------------------------ synchronous providers
getUserAgent(e) == e.userAgent

getScreenResolution(e) ==
  NatToString(e.screenWidth, 10) \o <<"x">> \o NatToString(e.screenHeight, 10)

getTimeZone(e) == e.timeZone

getLanguage(e) == e.language

getPlatform(e) == e.platform

getDoNotTrackStatus(e) == OrElse(e.doNotTrack, NA)

\* navigator.hardwareConcurrency.toString() || 'N/A': reading the attribute
\* may throw, `undefined.toString()` throws, and "0" is a non-empty string
getHardwareConcurrencyStatus(e) ==
  IF e.hardwareConcurrency.t = "number"
  THEN Return(OrElse(NatToString(e.hardwareConcurrency.v, 10), NA))
  ELSE Throw

getCookiesStatus(e) ==
  IF e.cookieEnabled
  THEN <<"C", "o", "o", "k", "i", "e", "s", " ", "E", "n", "a", "b", "l", "e", "d">>
  ELSE <<"C", "o", "o", "k", "i", "e", "s", " ", "D", "i", "s", "a", "b", "l", "e", "d">>

getPlugins(e) == JoinStr(Distinct(e.plugins), <<";">>)

getTouchSupport(e) ==
  IF e.ontouchstart \/ e.maxTouchPoints > 0
  THEN <<"T", "o", "u", "c", "h", " ", "S", "u", "p", "p", "o", "r", "t", "e", "d">>
  ELSE <<"T", "o", "u", "c", "h", " ", "N", "o", "t", " ",
         "S", "u", "p", "p", "o", "r", "t", "e", "d">>

\* lines 143-152: the ten synchronous reads, in order; the first throw ends them
SyncSignals(e) ==
  LET hc == getHardwareConcurrencyStatus(e)
  IN  IF hc.t = "throw" THEN hc
      ELSE Return(<<getUserAgent(e), getScreenResolution(e), getTimeZone(e),
                    getLanguage(e), getPlatform(e), getDoNotTrackStatus(e),
                    hc.v, getCookiesStatus(e), getTouchSupport(e), getPlugins(e)>>)

\* ----------------------------------------------- asynchronous providers
\* getFonts: the string its promise is fulfilled with; it never rejects
getFonts(e) ==
  IF e.fonts.t = "ready"
  THEN OrElse(JoinStr(Distinct(e.fonts.families), <<";">>), NA)
  ELSE NA

\* getWebGLFingerprint
getWebGLFingerprint(e) ==
  IF ~e.webgl.gl THEN NA
  ELSE IF ~e.webgl.ext THEN NA
  ELSE OrElse(e.webgl.renderer, NA) \o OrElse(e.webgl.vendor, NA)

\* getAudioFingerprint: Array.from(fingerprintArray).join(','), or the
\* sentinel when anything in the try block throws
getAudioFingerprint(e) ==
  IF e.audio.throws THEN NA
  ELSE JoinStr([j \in 1..Len(e.audio.samples) |-> NatToString(e.audio.samples[j], 10)],
               <<",">>)

\* ------------------------------------------------------- computeSHA256
RECURSIVE MixBytes(_, _, _)
\* a position-weighted sum of bytes[lo..hi], modulo a prime
MixBytes(bytes, lo, hi) ==
  IF lo > hi THEN 0
  ELSE IF lo = hi THEN (lo * (bytes[lo] + 1)) % 65521
  ELSE LET mid == (lo + hi) \div 2
       IN  (MixBytes(bytes, lo, mid) + MixBytes(bytes, mid + 1, hi)) % 65521

\* crypto.subtle.digest('SHA-256', bytes), a primitive of the host: a fixed
\* function from byte strings to 32 bytes.  The host's function is SHA-256;
\* this stand-in keeps what the module relies on (32 bytes, a function of
\* the input alone), not its values.
SubtleDigest(bytes) ==
  LET s == MixBytes(bytes, 1, Len(bytes))
  IN  [j \in 1..32 |-> ((s + j) * (2 * j + 1) + (s \div 256)) % 256]

\* lines 57-61: each byte as two lowercase hex digits, joined
HashHex(hashBuffer) ==
  JoinStr([j \in 1..Len(hashBuffer) |->
             PadStart(NatToString(hashBuffer[j], 16), 2, "0")], <<>>)

\* ------------------------------------------------------------- state
VARIABLES
  env,        \* env[k]: the host environment invocation k runs in
  pc,         \* pc[k]: where getBrowserFingerprint invocation k is suspended
  local,      \* local[k]: its local variables (lines 143-157)
  prom,       \* prom[k][p]: the promise returned by provider p's call
  started,    \* started[k]: the asynchronous providers called so far
  blobCb,     \* blobCb[k]: the canvas.toBlob callback (lines 134-138)
  digestBuf,  \* digestBuf[k]: the bytes crypto.subtle.digest resolved with
  outcome,    \* outcome[k]: the promise getBrowserFingerprint returned
  concurrent, \* some invocation was called while another was in flight
  buffer, i, hash, hashResult, pcH   \* computeHashBuffer's loop (lines 45-52)

ovars == <<env, pc, local, prom, started, blobCb, digestBuf, outcome, concurrent>>

hvars == <<buffer, i, hash, hashResult, pcH>>

vars == <<ovars, hvars>>

Calls == {1, 2}

Providers == <<"fonts", "canvas", "webgl", "audio">>

ProviderSet == {Providers[j] : j \in 1..Len(Providers)}

\* a value no string equals
Unset == <<"undefined">>

\* JavaScript values held by the locals
Str(s) == [t |-> "string", v |-> s]

PromiseObject(p) == [t |-> "promise", v |-> <<p>>]

Undefined == [t |-> "undefined", v |-> Unset]

\* promise states
NoPromise == [st |-> "none", v |-> Unset]

Pending == [st |-> "pending", v |-> Unset]

Fulfilled(v) == [st |-> "fulfilled", v |-> v]

Rejected(v) == [st |-> "rejected", v |-> v]

Settled(p) == p.st \in {"fulfilled", "rejected"}

\* --------------------------------------------------- host environments
Arial == <<"A", "r", "i", "a", "l">>

Times == <<"T", "i", "m", "e", "s">>

BaseEnv ==
  [userAgent |-> <<"U", "A">>,
   screenWidth |-> 800,
   screenHeight |-> 600,
   timeZone |-> <<"U", "T", "C">>,
   language |-> <<"e", "n">>,
   platform |-> <<"X", "1", "1">>,
   doNotTrack |-> <<"1">>,
   hardwareConcurrency |-> [t |-> "number", v |-> MaxCores],
   cookieEnabled |-> TRUE,
   plugins |-> << <<"P", "D", "F">>, <<"P", "D", "F">> >>,
   ontouchstart |-> FALSE,
   maxTouchPoints |-> 0,
   fonts |-> [t |-> "ready", families |-> <<Arial, Arial, Times>>],
   canvas |-> [ctx |-> TRUE, blob |-> TRUE, bytes |-> <<65, 66, 67>>],
   webgl |-> [gl |-> TRUE, ext |-> TRUE, renderer |-> <<"R">>, vendor |-> <<"V">>],
   audio |-> [throws |-> FALSE, samples |-> <<0, 12>>]]

\* navigator.doNotTrack: absent (null) or "1"
DoNotTrackDom == {<<>>, <<"1">>}

\* navigator.hardwareConcurrency: absent, a getter that throws, or a count
HardwareConcurrencyDom ==
  {[t |-> "undefined", v |-> 0], [t |-> "throws", v |-> 0]}
    \cup {[t |-> "number", v |-> n] : n \in 0..MaxCores}

\* document.fonts: absent, `ready` rejecting, or ready with a family list
FontsDom ==
  {[t |-> "absent", families |-> <<>>],
   [t |-> "rejects", families |-> <<>>],
   [t |-> "ready", families |-> <<>>],
   [t |-> "ready", families |-> <<Arial, Arial, Times>>]}

\* the 2-D context (null or not), the blob toBlob hands over (null or not)
\* and the blob's bytes
CanvasDom ==
  {[ctx |-> FALSE, blob |-> FALSE, bytes |-> <<>>],
   [ctx |-> TRUE, blob |-> FALSE, bytes |-> <<>>],
   [ctx |-> TRUE, blob |-> TRUE, bytes |-> <<65, 66, 67>>],
   [ctx |-> TRUE, blob |-> TRUE, bytes |-> <<65, 255, 65, 65, 65, 65>>]}

WebGLDom ==
  {[gl |-> FALSE, ext |-> FALSE, renderer |-> <<>>, vendor |-> <<>>],
   [gl |-> TRUE, ext |-> FALSE, renderer |-> <<>>, vendor |-> <<>>],
   [gl |-> TRUE, ext |-> TRUE, renderer |-> <<>>, vendor |-> <<"V">>],
   [gl |-> TRUE, ext |-> TRUE, renderer |-> <<"R">>, vendor |-> <<"V">>]}

AudioDom ==
  {[throws |-> TRUE, samples |-> <<>>],
   [throws |-> FALSE, samples |-> <<0, 12>>],
   [throws |-> FALSE, samples |-> <<0, 13>>]}

\* environments of one invocation: every combination of what the providers
\* that can fail may meet
Envs ==
  {[BaseEnv EXCEPT !.doNotTrack = d, !.hardwareConcurrency = h, !.fonts = f,
                   !.canvas = c, !.webgl = w, !.audio = a] :
     d \in DoNotTrackDom, h \in HardwareConcurrencyDom, f \in FontsDom,
     c \in CanvasDom, w \in WebGLDom, a \in AudioDom}

\* environments of a pair of invocations: the base environment with at most
\* one attribute changed
EnvsPair ==
  {BaseEnv,
   [BaseEnv EXCEPT !.userAgent = <<"U", "B">>],
   [BaseEnv EXCEPT !.screenWidth = 801],
   [BaseEnv EXCEPT !.screenHeight = 601],
   [BaseEnv EXCEPT !.timeZone = <<"C", "E", "T">>],
   [BaseEnv EXCEPT !.language = <<"f", "r">>],
   [BaseEnv EXCEPT !.platform = <<"M", "a", "c">>],
   [BaseEnv EXCEPT !.cookieEnabled = FALSE],
   [BaseEnv EXCEPT !.plugins = << <<"P", "D", "F">>, <<"Q">> >>],
   [BaseEnv EXCEPT !.ontouchstart = TRUE],
   [BaseEnv EXCEPT !.maxTouchPoints = 1]}
    \cup {[BaseEnv EXCEPT !.doNotTrack = d] : d \in DoNotTrackDom}
    \cup {[BaseEnv EXCEPT !.hardwareConcurrency = h] : h \in HardwareConcurrencyDom}
    \cup {[BaseEnv EXCEPT !.fonts = f] : f \in FontsDom}
    \cup {[BaseEnv EXCEPT !.canvas = c] : c \in CanvasDom}
    \cup {[BaseEnv EXCEPT !.webgl = w] : w \in WebGLDom}
    \cup {[BaseEnv EXCEPT !.audio = a] : a \in AudioDom}

\* ------------------------------------------------ getBrowserFingerprint
NoLocals ==
  [sync |-> <<>>, fonts |-> Undefined, canvas |-> Undefined,
   webgl |-> Undefined, audio |-> Undefined, raw |-> Unset]

NoPromises == [p \in ProviderSet |-> NoPromise]

Idle ==
  /\ pc = [k \in Calls |-> "idle"]
  /\ local = [k \in Calls |-> NoLocals]
  /\ prom = [k \in Calls |-> NoPromises]
  /\ started = [k \in Calls |-> {}]
  /\ blobCb = [k \in Calls |-> "none"]
  /\ digestBuf = [k \in Calls |-> <<>>]
  /\ outcome = [k \in Calls |-> Pending]
  /\ concurrent = FALSE

HashIdle ==
  /\ buffer = <<>>
  /\ i = 0
  /\ hash = <<0, 0>>
  /\ hashResult = Unset
  /\ pcH = "idle"

InFlight(k) == pc[k] \notin {"idle", "done"}

\* what a template literal renders for a local (line 157)
ToStr(x) ==
  CASE x.t = "string" -> x.v
    [] x.t = "promise" -> ObjectPromise
    [] OTHER -> <<"u", "n", "d", "e", "f", "i", "n", "e", "d">>

\* line 157: the fourteen interpolations, separated by '-'
RawString(l) ==
  JoinStr(l.sync \o <<ToStr(l.fonts), ToStr(l.canvas), ToStr(l.webgl), ToStr(l.audio)>>,
          <<"-">>)

\* the promise getFonts() returns at the call: settled when 'fonts' is not in
\* document, waiting for document.fonts.ready otherwise (lines 65-67, 78)
CallGetFonts(e) == IF e.fonts.t = "absent" THEN Fulfilled(NA) ELSE Pending

\* the promise getCanvasFingerprint() returns at the call: the executor
\* throws on the null context (lines 121, 124), which rejects it; otherwise
\* it waits for the toBlob callback
CallGetCanvasFingerprint(e) ==
  IF e.canvas.ctx THEN Pending ELSE Rejected(<<"TypeError">>)

\* mutant: an accumulator kept outside the function and never reset
CanvasHashShared(k) ==
  LET seeds == {HashFrom(<<0, 0>>, env[j].canvas.bytes) :
                  j \in {c \in Calls \ {k} : prom[c]["canvas"].st = "fulfilled"}}
      seed == IF seeds = {} THEN <<0, 0>> ELSE CHOOSE x \in seeds : TRUE
  IN  WideToHex(HashFrom(seed, env[k].canvas.bytes))

\* lines 135-137: the hash of the blob's bytes
CanvasHash(k) == computeHashBuffer(env[k].canvas.bytes)

\* mutant: every provider is called before the first await
InvokeEager(k) ==
  /\ pc[k] = "idle"
  /\ SyncSignals(env[k]).t = "return"
  /\ local' = [local EXCEPT ![k].sync = SyncSignals(env[k]).v]
  /\ prom' = [prom EXCEPT ![k]["fonts"] = CallGetFonts(env[k]),
                          ![k]["canvas"] = CallGetCanvasFingerprint(env[k])]
  /\ blobCb' = [blobCb EXCEPT ![k] = IF env[k].canvas.ctx THEN "scheduled" ELSE "none"]
  /\ started' = [started EXCEPT ![k] = {"fonts", "canvas"}]
  /\ pc' = [pc EXCEPT ![k] = "await_fonts"]
  /\ concurrent' = (concurrent \/ \E j \in Calls \ {k} : InFlight(j))
  /\ UNCHANGED <<env, digestBuf, outcome, hvars>>

\* the call, lines 143-153 up to the first await: the synchronous providers
\* (a throw rejects the returned promise) and the call of getFonts
Invoke(k) ==
  /\ pc[k] = "idle"
  /\ LET s == SyncSignals(env[k])
     IN  IF s.t = "throw"
         THEN /\ outcome' = [outcome EXCEPT ![k] = Rejected(s.v)]
              /\ pc' = [pc EXCEPT ![k] = "done"]
              /\ UNCHANGED <<local, prom, started>>
         ELSE /\ local' = [local EXCEPT ![k].sync = s.v]
              /\ prom' = [prom EXCEPT ![k]["fonts"] = CallGetFonts(env[k])]
              /\ started' = [started EXCEPT ![k] = @ \cup {"fonts"}]
              /\ pc' = [pc EXCEPT ![k] = "await_fonts"]
              /\ UNCHANGED outcome
  /\ concurrent' = (concurrent \/ \E j \in Calls \ {k} : InFlight(j))
  /\ UNCHANGED <<env, blobCb, digestBuf, hvars>>

\* the host settles document.fonts.ready and getFonts runs to its return
\* (lines 67-76): its promise is fulfilled either way
FontsReady(k) ==
  /\ prom[k]["fonts"].st = "pending"
  /\ prom' = [prom EXCEPT ![k]["fonts"] = Fulfilled(getFonts(env[k]))]
  /\ UNCHANGED <<env, pc, local, started, blobCb, digestBuf, outcome, concurrent, hvars>>

\* line 153 resumes, line 154 calls getCanvasFingerprint and awaits it
ResumeFonts(k) ==
  /\ pc[k] = "await_fonts"
  /\ prom[k]["fonts"].st = "fulfilled"
  /\ local' = [local EXCEPT ![k].fonts = Str(prom[k]["fonts"].v)]
  /\ prom' = [prom EXCEPT ![k]["canvas"] = CallGetCanvasFingerprint(env[k])]
  /\ blobCb' = [blobCb EXCEPT ![k] = IF env[k].canvas.ctx THEN "scheduled" ELSE "none"]
  /\ started' = [started EXCEPT ![k] = @ \cup {"canvas"}]
  /\ pc' = [pc EXCEPT ![k] = "await_canvas"]
  /\ UNCHANGED <<env, digestBuf, outcome, concurrent, hvars>>

\* the host calls the toBlob callback (line 134): blob!.arrayBuffer() throws
\* on a null blob, which ends the callback without resolve being called
ToBlobCallback(k) ==
  /\ blobCb[k] = "scheduled"
  /\ blobCb' = [blobCb EXCEPT ![k] = IF env[k].canvas.blob THEN "reading" ELSE "threw"]
  /\ UNCHANGED <<env, pc, local, prom, started, digestBuf, outcome, concurrent, hvars>>

\* blob.arrayBuffer() settles, the callback hashes the bytes and resolves
\* the promise (lines 135-137)
ArrayBufferReady(k) ==
  /\ blobCb[k] = "reading"
  /\ blobCb' = [blobCb EXCEPT ![k] = "done"]
  /\ prom' = [prom EXCEPT ![k]["canvas"] = Fulfilled(CanvasHash(k))]
  /\ UNCHANGED <<env, pc, local, started, digestBuf, outcome, concurrent, hvars>>

\* line 154 resumes (a rejected promise rejects the call), line 155 calls
\* getWebGLFingerprint and awaits it
ResumeCanvas(k) ==
  /\ pc[k] = "await_canvas"
  /\ Settled(prom[k]["canvas"])
  /\ IF prom[k]["canvas"].st = "rejected"
     THEN /\ outcome' = [outcome EXCEPT ![k] = Rejected(prom[k]["canvas"].v)]
          /\ pc' = [pc EXCEPT ![k] = "done"]
          /\ UNCHANGED <<local, prom, started>>
     ELSE /\ local' = [local EXCEPT ![k].canvas = Str(prom[k]["canvas"].v)]
          /\ prom' = [prom EXCEPT ![k]["webgl"] = Fulfilled(getWebGLFingerprint(env[k]))]
          /\ started' = [started EXCEPT ![k] = @ \cup {"webgl"}]
          /\ pc' = [pc EXCEPT ![k] = "await_webgl"]
          /\ UNCHANGED outcome
  /\ UNCHANGED <<env, blobCb, digestBuf, concurrent, hvars>>

\* line 155 resumes; line 156 calls getAudioFingerprint and keeps the promise
\* it returns; line 157 builds the string; line 158 calls computeSHA256,
\* which encodes the string and waits for crypto.subtle.digest (lines 55-56)
ResumeWebGL(k) ==
  /\ pc[k] = "await_webgl"
  /\ prom[k]["webgl"].st = "fulfilled"
  /\ LET l == [local[k] EXCEPT !.webgl = Str(prom[k]["webgl"].v),
                               !.audio = PromiseObject("audio")]
     IN  local' = [local EXCEPT ![k] = [l EXCEPT !.raw = RawString(l)]]
  /\ prom' = [prom EXCEPT ![k]["audio"] = Fulfilled(getAudioFingerprint(env[k]))]
  /\ started' = [started EXCEPT ![k] = @ \cup {"audio"}]
  /\ pc' = [pc EXCEPT ![k] = "await_digest"]
  /\ UNCHANGED <<env, blobCb, digestBuf, outcome, concurrent, hvars>>

\* the host settles crypto.subtle.digest with the digest bytes (line 56)
DigestReady(k) ==
  /\ pc[k] = "await_digest"
  /\ digestBuf[k] = <<>>
  /\ digestBuf' = [digestBuf EXCEPT ![k] = SubtleDigest(Utf8(local[k].raw))]
  /\ UNCHANGED <<env, pc, local, prom, started, blobCb, outcome, concurrent, hvars>>

\* line 56 resumes, lines 57-61 render the bytes, lines 158-159 return them
ResumeDigest(k) ==
  /\ pc[k] = "await_digest"
  /\ digestBuf[k] # <<>>
  /\ outcome' = [outcome EXCEPT ![k] = Fulfilled(HashHex(digestBuf[k]))]
  /\ pc' = [pc EXCEPT ![k] = "done"]
  /\ UNCHANGED <<env, local, prom, started, blobCb, digestBuf, concurrent, hvars>>

Step(k) ==
  \/ Invoke(k)
  \/ FontsReady(k)
  \/ ResumeFonts(k)
  \/ ToBlobCallback(k)
  \/ ArrayBufferReady(k)
  \/ ResumeCanvas(k)
  \/ ResumeWebGL(k)
  \/ DigestReady(k)
  \/ ResumeDigest(k)

\* one invocation, in any environment
Init ==
  /\ env \in {[k \in Calls |-> e] : e \in Envs}
  /\ Idle
  /\ HashIdle

Next == Step(1)

Spec == Init /\ [][Next]_vars

\* two invocations, one after the other or overlapping
InitPair ==
  /\ env \in [Calls -> EnvsPair]
  /\ Idle
  /\ HashIdle

NextPair == \E k \in Calls : Step(k)

SpecPair == InitPair /\ [][NextPair]_vars

\* ------------------------------------------------ the hash loop, stepwise
Bytes == {65, 66, 67, 255}

RECURSIVE SeqsUpTo(_, _)
SeqsUpTo(S, n) ==
  IF n = 0 THEN {<<>>}
  ELSE LET shorter == SeqsUpTo(S, n - 1)
       IN  shorter \cup {Append(s, x) : s \in {t \in shorter : Len(t) = n - 1}, x \in S}

HashInit ==
  /\ buffer \in SeqsUpTo(Bytes, MaxLen)
  /\ i = 0
  /\ hash = <<0, 0>>
  /\ hashResult = Unset
  /\ pcH = "loop"
  /\ env = [k \in Calls |-> BaseEnv]
  /\ Idle

\* one iteration of the for loop (lines 48-50)
HashLoop ==
  /\ pcH = "loop"
  /\ i < Len(buffer)
  /\ hash' = HashStep(hash, buffer[i + 1])
  /\ i' = i + 1
  /\ UNCHANGED <<buffer, hashResult, pcH, ovars>>

\* loop exit and `return hash.toString(16)` (line 51)
HashReturn ==
  /\ pcH = "loop"
  /\ i >= Len(buffer)
  /\ hashResult' = WideToHex(hash)
  /\ pcH' = "done"
  /\ UNCHANGED <<buffer, i, hash, ovars>>

HashNext == HashLoop \/ HashReturn

SpecHash == HashInit /\ [][HashNext]_vars

\* =============================================================== claims
\* a <= b
WLeq(a, b) == a[1] < b[1] \/ (a[1] = b[1] /\ a[2] <= b[2])

\* 31 * a, exact
WMul31(a) == <<31 * a[1] + ((31 * a[2]) \div Half), (31 * a[2]) % Half>>

\* -2^31 <= a < 2^31
InInt32(a) == a[1] >= -(Half \div 2) /\ a[1] < Half \div 2

\* a and b are congruent modulo 2^32
Cong32(a, b) == ToInt32(a) = ToInt32(b)

HexDigitSet == {HexDigits[j] : j \in 1..Len(HexDigits)}

\* a 64-character lowercase hexadecimal string
IsHex64(s) == Len(s) = 64 /\ \A j \in 1..Len(s) : s[j] \in HexDigitSet

\* every asynchronous provider fails internally in e, the synchronous
\* attributes being readable
AllAsyncFail(e) ==
  /\ e.fonts.t \in {"absent", "rejects"}
  /\ ~e.canvas.ctx \/ ~e.canvas.blob
  /\ ~e.webgl.gl \/ ~e.webgl.ext
  /\ e.audio.throws
  /\ e.hardwareConcurrency.t = "number"

\* the fourteen signal values of environment e, in declared order (for an
\* environment in which every provider yields one)
Signals(e) ==
  SyncSignals(e).v \o <<getFonts(e), computeHashBuffer(e.canvas.bytes),
                        getWebGLFingerprint(e), getAudioFingerprint(e)>>

\* C1: in an environment where every asynchronous provider fails internally,
\* a call never rejects and never stops short of its result (it is fulfilled
\* or can still take a step), and its result is a 64-character hex string
\* over the synchronous signals and four "N/A" sentinels.
C1_CompletesWhenAllFail ==
  \A k \in Calls :
    (pc[k] # "idle" /\ AllAsyncFail(env[k])) =>
      /\ outcome[k].st # "rejected"
      /\ outcome[k].st = "fulfilled" \/ ENABLED Step(k)
      /\ outcome[k].st = "fulfilled" =>
           /\ IsHex64(outcome[k].v)
           /\ local[k].raw = JoinStr(local[k].sync \o <<NA, NA, NA, NA>>, <<"-">>)

\* C2: in every environment the promise a call returns is pending or
\* fulfilled with a 64-character lowercase hex string; it is never rejected.
C2_FulfilsOrPends ==
  \A k \in Calls :
    \/ outcome[k].st = "pending"
    \/ outcome[k].st = "fulfilled" /\ IsHex64(outcome[k].v)

\* C3: once the canonical string is built, all four asynchronous providers
\* have settled and the string holds, at their positions, the strings their
\* promises resolved to.
C3_JoinHoldsResolvedValues ==
  \A k \in Calls :
    local[k].raw # Unset =>
      /\ \A p \in ProviderSet : Settled(prom[k][p])
      /\ local[k].raw =
           JoinStr(local[k].sync \o [j \in 1..Len(Providers) |-> prom[k][Providers[j]].v],
                   <<"-">>)

C5_CanonicalInDeclaredOrder ==
  \A k \in Calls :
    local[k].raw # Unset => local[k].raw = JoinStr(Signals(env[k]), <<"-">>)

\* a step changes the state of at most one invocation
Isolated ==
  \A k \in Calls :
    <<pc[k], local[k], prom[k], started[k], blobCb[k], digestBuf[k], outcome[k]>>'
        # <<pc[k], local[k], prom[k], started[k], blobCb[k], digestBuf[k], outcome[k]>>
      => \A j \in Calls \ {k} :
           <<pc[j], local[j], prom[j], started[j], blobCb[j], digestBuf[j], outcome[j]>>'
             = <<pc[j], local[j], prom[j], started[j], blobCb[j], digestBuf[j], outcome[j]>>

SameFingerprints ==
  \A j, k \in Calls :
    (env[j] = env[k] /\ outcome[j].st = "fulfilled" /\ outcome[k].st = "fulfilled")
      => outcome[j].v = outcome[k].v

\* C6: two calls in the same environment, run one after the other or
\* interleaved, return the same fingerprint, no step of one call changes the
\* state of the other, and the environment is left unchanged.
C6_DeterministicAndReentrant ==
  /\ []SameFingerprints
  /\ [][Isolated /\ env' = env]_vars

\* C6 witness: two overlapping calls in one environment, both fulfilled.
C6_OverlappingCallsAgree ==
  /\ concurrent
  /\ env[1] = env[2]
  /\ outcome[1].st = "fulfilled"
  /\ outcome[2].st = "fulfilled"
  /\ outcome[1].v = outcome[2].v

\* C7: two environments that differ in exactly one of the fourteen signal
\* values give different canonical strings.
C7_OneSignalChangesCanonical ==
  \A j, k \in Calls :
    (/\ local[j].raw # Unset
     /\ local[k].raw # Unset
     /\ Cardinality({n \in 1..14 : Signals(env[j])[n] # Signals(env[k])[n]}) = 1)
      => local[j].raw # local[k].raw

\* the wrapped accumulator of the claim: (acc * 31 + b) mod 2^32, signed
RECURSIVE Wrapped32(_)
Wrapped32(bytes) ==
  IF bytes = <<>> THEN <<0, 0>>
  ELSE ToInt32(WAdd(WMul31(Wrapped32(SubSeq(bytes, 1, Len(bytes) - 1))),
                    Wide(bytes[Len(bytes)])))

\* C8: the accumulator is a signed 32-bit integer at every step, equal to
\* the wrapped (acc * 31 + b) of the bytes read so far; the result is its
\* lowercase hex; [65, 66, 67] gives "fc42" and the empty buffer "0".
C8_AccumulatorIsInt32 ==
  /\ InInt32(hash)
  /\ pcH # "idle" => hash = Wrapped32(SubSeq(buffer, 1, i))
  /\ pcH = "done" => hashResult = WideToHex(hash)
  /\ (pcH = "done" /\ buffer = <<65, 66, 67>>) => hashResult = <<"f", "c", "4", "2">>
  /\ (pcH = "done" /\ buffer = <<>>) => hashResult = <<"0">>

\* what the claim has the logical-processor-count provider return
HardwareConcurrencyClaimed(e) ==
  IF e.hardwareConcurrency.t = "number" /\ e.hardwareConcurrency.v > 0
  THEN NatToString(e.hardwareConcurrency.v, 10)
  ELSE NA

\* C9: the logical-processor-count provider never throws (the synchronous
\* reads of a call always complete) and yields "N/A" for an absent, zero or
\* unreadable count, the decimal count otherwise.
C9_HardwareConcurrencySentinel ==
  \A k \in Calls :
    pc[k] # "idle" =>
      /\ local[k].sync # <<>>
      /\ local[k].sync[7] = HardwareConcurrencyClaimed(env[k])

\* the reference polynomial hash h' = 31 * h + b, h0 = 0, not truncated
RECURSIVE Polynomial(_)
Polynomial(bytes) ==
  IF bytes = <<>> THEN <<0, 0>>
  ELSE WAdd(WMul31(Polynomial(SubSeq(bytes, 1, Len(bytes) - 1))),
            Wide(bytes[Len(bytes)]))

\* C10: after each byte the accumulator is congruent modulo 2^32 to the
\* reference polynomial hash of the bytes read so far, and one byte
\* increases its magnitude by at most 2^31 + 255.
C10_CongruentToPolynomial ==
  /\ [](pcH # "idle" => Cong32(hash, Polynomial(SubSeq(buffer, 1, i))))
  /\ [][WLeq(WSub(WAbs(hash'), WAbs(hash)), <<Half \div 2, 255>>)]_vars

\* C10 witness: the loop has ended with an accumulator outside the signed
\* 32-bit range, congruent to the polynomial and not equal to it.
C10_OutsideInt32 ==
  /\ pcH = "done"
  /\ i = Len(buffer)
  /\ ~InInt32(hash)
  /\ Cong32(hash, Polynomial(buffer))
  /\ hash # Polynomial(buffer)

====
